---- MODULE Spec2Model ----
(***************************************************************************)
(* Model of src/app.py: the Streamlit asset-merging script.                *)
(*                                                                         *)
(* Every user event (upload change, rule edit, selectbox change, button    *)
(* click, new session, process restart) reruns the whole script top to     *)
(* bottom, so every action below is one complete script run.               *)
(*                                                                         *)
(* Text: TLA+ strings are ASCII, so the Korean literals of the source are  *)
(* written as bracketed romanisations ("<suri pilyo>" for the needs-repair *)
(* literal); a bracketed word never contains an ASCII keyword by accident. *)
(*                                                                         *)
(* Cells: pandas cells are text, numbers or missing (NaN); a cell is the   *)
(* record [t, s, n] with t in {"str", "num", "nan"}.                       *)
(***************************************************************************)
EXTENDS Integers, Sequences, FiniteSets, TLC

VARIABLES
    uploaded_files,   \* st.file_uploader value: sequence of uploaded files
    serial_rule,      \* st.text_input value
    clicked,          \* st.button value in the last run
    network,          \* whether FONT_URL was reachable at the last PDF request
    fontFile,         \* fonts/DejaVuSans.ttf exists on disk
    fontCache,        \* st.cache_resource entry of get_font_path
    fetch,            \* urlretrieve in the last run: "none", "ok", "fail"
    font_path,        \* what get_font_path returned in the last run
    merged,           \* result of concat_uploads in the last run
    applied,          \* number of apply_serial_rule calls on df
    df,               \* the table after the serial-rule step
    status_col,       \* chosen status column
    metrics,          \* the three displayed counters
    dept_count,       \* group-by count shown as bar chart
    type_count,       \* group-by count shown as pie chart
    excel_download,   \* content of the spreadsheet download button
    pdf_download,     \* content of the PDF download button
    messages,         \* st.info / st.warning / st.error shown in the last run
    halted            \* where the last run ended

vars == <<uploaded_files, serial_rule, clicked, network, fontFile, fontCache,
          fetch, font_path, merged, applied, df, status_col, metrics,
          dept_count, type_count, excel_download, pdf_download, messages,
          halted>>

\* Bounds of the model
MaxFiles == 2
MaxApply == 2

-----------------------------------------------------------------------------
\* Text

NEED_REPAIR == "<suri pilyo>"
TO_DISPOSE == "<pyegi yejeong>"
NORMAL == "<jeongsang>"
SERIAL_KO == "<sirieol>"

UpperChars == "ABCDEFGHIJKLMNOPQRSTUVWXYZ"
LowerChars == "abcdefghijklmnopqrstuvwxyz"

LowerChar(c) ==
    IF \E i \in 1..Len(UpperChars) : SubSeq(UpperChars, i, i) = c
    THEN LET i == CHOOSE j \in 1..Len(UpperChars) : SubSeq(UpperChars, j, j) = c
         IN  SubSeq(LowerChars, i, i)
    ELSE c

RECURSIVE lower(_)
lower(s) ==
    IF Len(s) = 0 THEN ""
    ELSE LowerChar(SubSeq(s, 1, 1)) \o lower(SubSeq(s, 2, Len(s)))

\* Python's `sub in s`
Contains(sub, s) ==
    \E i \in 1..(Len(s) - Len(sub) + 1) : SubSeq(s, i, i + Len(sub) - 1) = sub

startswith(s, p) == Len(s) >= Len(p) /\ SubSeq(s, 1, Len(p)) = p

\* rule.split(p, 1)[1] for a rule that starts with p
AfterPrefix(s, p) == SubSeq(s, Len(p) + 1, Len(s))

-----------------------------------------------------------------------------
\* Cells and tables

Str(s) == [t |-> "str", s |-> s, n |-> 0]
Num(n) == [t |-> "num", s |-> "", n |-> n]
NaN == [t |-> "nan", s |-> "", n |-> 0]

\* str(v): the textual representation astype(str) and the f-string produce
Text(v) ==
    CASE v.t = "str" -> v.s
      [] v.t = "num" -> ToString(v.n)
      [] OTHER -> "nan"

\* v == literal, as pandas compares a cell with a string
EqualsText(v, lit) == v.t = "str" /\ v.s = lit

\* A DataFrame: ordered column names and rows aligned with them
Table(cols, rows) == [ok |-> TRUE, cols |-> cols, rows |-> rows]
\* Python None where a DataFrame is expected, and a decoder's exception
None == [ok |-> FALSE, cols |-> <<>>, rows |-> <<>>]

IndexOf(seq, x) == CHOOSE i \in 1..Len(seq) : seq[i] = x
InSeq(seq, x) == \E i \in 1..Len(seq) : seq[i] = x
Range(seq) == {seq[i] : i \in 1..Len(seq)}

\* df[col] of row r
Cell(t, r, col) == t.rows[r][IndexOf(t.cols, col)]

-----------------------------------------------------------------------------
\* Uploaded files.  An upload is its name and what each decoder makes of its
\* bytes: a table, or None when the decoder raises.

Upload(name, excel, csv) == [name |-> name, excel |-> excel, csv |-> csv]

FileA ==
    Upload("a.xlsx",
           Table(<<"Serial", "Dept", "Type", "Status">>,
                 << <<Str("001"), Str("IT"), Str("PC"), Str(NEED_REPAIR)>>,
                    <<Num(7), Str("IT"), NaN, Str(TO_DISPOSE)>> >>),
           None)
FileB ==
    Upload("b.csv", None,
           Table(<<"Model", "<sirieol> no", "State">>,
                 << <<Str("B1"), Str("S9"), Str(NORMAL)>> >>))
\* a header-only CSV: decodes, no rows
FileE == Upload("e.csv", None, Table(<<"Name">>, <<>>))
\* numeric cells only
FileN == Upload("n.xlsx", Table(<<"Id">>, << <<Num(1)>> >>), None)
\* neither decoder accepts the bytes
FileX == Upload("x.bin", None, None)

Files == {FileA, FileB, FileE, FileN, FileX}

\* every column label a table of the model can carry
ColumnNames ==
    UNION {Range(f.excel.cols) \cup Range(f.csv.cols) : f \in Files}

Rules == {"", "prefix=HQ-", "suffix=-25", "HQ-"}

-----------------------------------------------------------------------------
\* 1) load / concat

load_excel_or_csv(f) == IF f.excel.ok THEN f.excel ELSE f.csv

RECURSIVE LoadFrames_skipBad(_, _)
\* mutant: an unreadable file is skipped instead of ending the merge
LoadFrames_skipBad(files, frames) ==
    IF files = <<>> THEN [ok |-> TRUE, frames |-> frames, failed |-> ""]
    ELSE LET t == load_excel_or_csv(Head(files))
         IN  IF ~t.ok
             THEN LoadFrames_skipBad(Tail(files), frames)
             ELSE LoadFrames_skipBad(Tail(files), Append(frames, t))

RECURSIVE LoadFrames(_, _)
\* the for loop of concat_uploads: the frames read so far, or the name of the
\* first file that cannot be read
LoadFrames(files, frames) ==
    IF files = <<>> THEN [ok |-> TRUE, frames |-> frames, failed |-> ""]
    ELSE LET t == load_excel_or_csv(Head(files))
         IN  IF ~t.ok
             THEN [ok |-> FALSE, frames |-> <<>>, failed |-> Head(files).name]
             ELSE LoadFrames(Tail(files), Append(frames, t))

RECURSIVE UnionCols(_, _)
\* column labels of the concatenation: first appearance order
UnionCols(frames, acc) ==
    IF frames = <<>> THEN acc
    ELSE LET new == SelectSeq(Head(frames).cols, LAMBDA c : ~InSeq(acc, c))
         IN  UnionCols(Tail(frames), acc \o new)

\* the rows of frame t aligned to cols, NaN where t has no such column
Reindex(t, cols) ==
    [r \in 1..Len(t.rows) |->
        [k \in 1..Len(cols) |->
            IF InSeq(t.cols, cols[k]) THEN Cell(t, r, cols[k]) ELSE NaN]]

RECURSIVE StackRows(_, _)
StackRows(frames, cols) ==
    IF frames = <<>> THEN <<>>
    ELSE Reindex(Head(frames), cols) \o StackRows(Tail(frames), cols)

RECURSIVE Reversed(_)
Reversed(seq) ==
    IF seq = <<>> THEN <<>> ELSE Append(Reversed(Tail(seq)), Head(seq))

\* mutant: the frames are stacked last file first
PdConcat_reversed(frames) ==
    LET cols == UnionCols(frames, <<>>)
    IN  Table(cols, StackRows(Reversed(frames), cols))

\* pd.concat(frames, ignore_index=True)
PdConcat(frames) ==
    LET cols == UnionCols(frames, <<>>)
    IN  Table(cols, StackRows(frames, cols))

concat_uploads(files) ==
    LET l == LoadFrames(files, <<>>)
    IN  IF ~l.ok THEN None
        ELSE IF l.frames = <<>> THEN None
        ELSE PdConcat(l.frames)

\* df.empty
IsEmpty(t) == Len(t.rows) = 0 \/ Len(t.cols) = 0

-----------------------------------------------------------------------------
\* 2) serial rule

\* the test of line 77 on one column label
SerialTest(c) == Contains("serial", lower(c)) \/ Contains(SERIAL_KO, c)
\* the test tabulated once over the labels of the model
SerialTestOf == [c \in ColumnNames |-> SerialTest(c)]
IsSerialCol(c) == SerialTestOf[c]

\* df[col].astype(str): the column as text
AsTextColumn(t, col) == [r \in 1..Len(t.rows) |-> Text(Cell(t, r, col))]

\* df[col] = values : every other column and the row order kept
SetColumn(t, col, values) ==
    Table(t.cols,
          [r \in 1..Len(t.rows) |->
              [k \in 1..Len(t.cols) |->
                  IF t.cols[k] = col THEN values[r] ELSE t.rows[r][k]]])

\* mutant: a value that already carries the text is left alone
apply_serial_rule_once(t, rule) ==
    LET serial_cols == SelectSeq(t.cols, IsSerialCol)
    IN  IF serial_cols = <<>> THEN t
        ELSE LET col == serial_cols[1]
                 text == AsTextColumn(t, col)
             IN  IF startswith(rule, "prefix=")
                 THEN LET prefix == AfterPrefix(rule, "prefix=")
                      IN  SetColumn(t, col,
                             [r \in 1..Len(text) |->
                                 IF startswith(text[r], prefix) THEN Str(text[r])
                                 ELSE Str(prefix \o text[r])])
                 ELSE IF startswith(rule, "suffix=")
                 THEN LET suffix == AfterPrefix(rule, "suffix=")
                      IN  SetColumn(t, col,
                             [r \in 1..Len(text) |->
                                 IF Len(text[r]) >= Len(suffix)
                                    /\ SubSeq(text[r], Len(text[r]) - Len(suffix) + 1,
                                              Len(text[r])) = suffix
                                 THEN Str(text[r])
                                 ELSE Str(text[r] \o suffix)])
                 ELSE t

\* mutant: the last matching column is rewritten, not the first
apply_serial_rule_lastCol(t, rule) ==
    LET serial_cols == SelectSeq(t.cols, IsSerialCol)
    IN  IF serial_cols = <<>> THEN t
        ELSE LET col == serial_cols[Len(serial_cols)]
                 text == AsTextColumn(t, col)
             IN  IF startswith(rule, "prefix=")
                 THEN LET prefix == AfterPrefix(rule, "prefix=")
                      IN  SetColumn(t, col, [r \in 1..Len(text) |-> Str(prefix \o text[r])])
                 ELSE IF startswith(rule, "suffix=")
                 THEN LET suffix == AfterPrefix(rule, "suffix=")
                      IN  SetColumn(t, col, [r \in 1..Len(text) |-> Str(text[r] \o suffix)])
                 ELSE t

apply_serial_rule(t, rule) ==
    LET serial_cols == SelectSeq(t.cols, IsSerialCol)
    IN  IF serial_cols = <<>> THEN t
        ELSE LET col == serial_cols[1]
                 text == AsTextColumn(t, col)
             IN  IF startswith(rule, "prefix=")
                 THEN LET prefix == AfterPrefix(rule, "prefix=")
                      IN  SetColumn(t, col, [r \in 1..Len(text) |-> Str(prefix \o text[r])])
                 ELSE IF startswith(rule, "suffix=")
                 THEN LET suffix == AfterPrefix(rule, "suffix=")
                      IN  SetColumn(t, col, [r \in 1..Len(text) |-> Str(text[r] \o suffix)])
                 ELSE t

-----------------------------------------------------------------------------
\* Font (UTF-8 PDF support)

FONT_PATH == "fonts/DejaVuSans.ttf"

\* mutant: no font_path.exists() test, a process without a cached value fetches
get_font_path_noExists(cache, file, net) ==
    IF cache # "unset"
    THEN [ret |-> cache, fetch |-> "none", cache |-> cache, file |-> file,
          warned |-> cache = "None"]
    ELSE IF net = "up"
    THEN [ret |-> FONT_PATH, fetch |-> "ok", cache |-> FONT_PATH,
          file |-> TRUE, warned |-> FALSE]
    ELSE [ret |-> "None", fetch |-> "fail", cache |-> "None",
          file |-> file, warned |-> TRUE]

\* get_font_path under st.cache_resource.  cache is the cached return value
\* ("unset" before the first call of the process), file whether FONT_PATH
\* exists, net whether urlretrieve can reach FONT_URL.  The result gives the
\* returned value, the fetch made, and the cache and the disk afterwards.
get_font_path(cache, file, net) ==
    IF cache # "unset"
    THEN [ret |-> cache, fetch |-> "none", cache |-> cache, file |-> file,
          warned |-> cache = "None"]
    ELSE IF file
    THEN [ret |-> FONT_PATH, fetch |-> "none", cache |-> FONT_PATH,
          file |-> file, warned |-> FALSE]
    ELSE IF net = "up"
    THEN [ret |-> FONT_PATH, fetch |-> "ok", cache |-> FONT_PATH,
          file |-> TRUE, warned |-> FALSE]
    ELSE [ret |-> "None", fetch |-> "fail", cache |-> "None",
          file |-> FALSE, warned |-> TRUE]

-----------------------------------------------------------------------------
\* 3) PDF of the rows to repair

NoPdf == [ok |-> FALSE, title |-> "", lines |-> <<>>]

RECURSIVE Join(_, _)
\* sep.join(parts)
Join(sep, parts) ==
    IF parts = <<>> THEN ""
    ELSE IF Len(parts) = 1 THEN parts[1]
    ELSE parts[1] \o sep \o Join(sep, Tail(parts))

\* one text line of the PDF: "col: value" of every column
RowLine(t, r) ==
    Join(", ", [k \in 1..Len(t.cols) |-> t.cols[k] \o ": " \o Text(t.rows[r][k])])

\* df[df[status_col] == "needs repair"]
RepairSubset(t, col) ==
    Table(t.cols, SelectSeq(t.rows, LAMBDA row : EqualsText(row[IndexOf(t.cols, col)], NEED_REPAIR)))

\* mutant: no test of the font, a document is built without it
build_repair_pdf_noFontTest(t, col, font) ==
    LET subset == RepairSubset(t, col)
    IN  [ok |-> TRUE, title |-> "<suri daesangja mongnok>",
         lines |-> [r \in 1..Len(subset.rows) |-> RowLine(subset, r)]]

\* font is what get_font_path returned
build_repair_pdf(t, col, font) ==
    IF font = "None" THEN NoPdf
    ELSE LET subset == RepairSubset(t, col)
         IN  [ok |-> TRUE, title |-> "<suri daesangja mongnok>",
              lines |-> [r \in 1..Len(subset.rows) |-> RowLine(subset, r)]]

-----------------------------------------------------------------------------
\* Status summary and charts

\* dtype == object: the column holds text
IsObjectCol(t, c) == \E r \in 1..Len(t.rows) : Cell(t, r, c).t = "str"

StatusOptions(t) ==
    IF InSeq(t.cols, "Status") THEN <<"Status">>
    ELSE SelectSeq(t.cols, LAMBDA c : IsObjectCol(t, c))

\* mutant: a missing status counts as a match
CountEquals_nanMatches(t, col, lit) ==
    Cardinality({r \in 1..Len(t.rows) :
                    EqualsText(Cell(t, r, col), lit) \/ Cell(t, r, col) = NaN})

\* (df[col] == lit).sum()
CountEquals(t, col, lit) ==
    Cardinality({r \in 1..Len(t.rows) : EqualsText(Cell(t, r, col), lit)})

NoMetrics == [shown |-> FALSE, total_devices |-> 0, need_repair |-> 0, to_dispose |-> 0]

StatusSummary(t, col) ==
    [shown |-> TRUE,
     total_devices |-> Len(t.rows),
     need_repair |-> CountEquals(t, col, NEED_REPAIR),
     to_dispose |-> CountEquals(t, col, TO_DISPOSE)]

\* the tests of lines 160 and 161 on one column label
DeptTest(c) ==
    \E k \in {"dept", "department", "<buseo>"} : Contains(k, lower(c))
TypeTest(c) ==
    \E k \in {"model", "type", "<jongnyu>", "<model>"} : Contains(k, lower(c))
\* the tests tabulated once over the labels of the model
DeptTestOf == [c \in ColumnNames |-> DeptTest(c)]
TypeTestOf == [c \in ColumnNames |-> TypeTest(c)]
IsDeptCol(c) == DeptTestOf[c]
IsTypeCol(c) == TypeTestOf[c]

\* options = candidates or list(df.columns)
OptionsOr(candidates, columns) ==
    IF candidates # <<>> THEN candidates ELSE columns

DeptOptions(t) == OptionsOr(SelectSeq(t.cols, IsDeptCol), t.cols)
TypeOptions(t) == OptionsOr(SelectSeq(t.cols, IsTypeCol), t.cols)

RECURSIVE CountInto(_, _)
\* one pass over the values of the grouping column; groups is the set of
\* [key, count] found so far (the order of the keys is the chart's business)
CountInto(values, groups) ==
    IF values = <<>> THEN groups
    ELSE LET v == Head(values)
             old == {g \in groups : g.key = v}
             n == IF old = {} THEN 0 ELSE (CHOOSE g \in old : TRUE).count
         IN  CountInto(Tail(values),
                       (groups \ old) \cup {[key |-> v, count |-> n + 1]})

\* mutant: dropna left at its default, the missing values form no group
GroupBySize_dropna(t, col) ==
    CountInto(SelectSeq([r \in 1..Len(t.rows) |-> Cell(t, r, col)],
                        LAMBDA v : v # NaN), {})

\* df.groupby(col, dropna=False).size()
GroupBySize(t, col) ==
    CountInto([r \in 1..Len(t.rows) |-> Cell(t, r, col)], {})

NoChart == [shown |-> FALSE, by |-> "", groups |-> {}]
Chart(t, col) == [shown |-> TRUE, by |-> col, groups |-> GroupBySize(t, col)]

-----------------------------------------------------------------------------
\* One run of the script

\* mutant: only None stops the run, an empty table goes on
NothingToShow_noneOnly(t) == ~t.ok

\* the guard of line 125: nothing to show
NothingToShow(t) == ~t.ok \/ IsEmpty(t)

ReadErrors(files) ==
    LET l == LoadFrames(files, <<>>)
    IN  IF l.ok THEN {} ELSE {"error_read:" \o l.failed}

\* what a run that stops early leaves on the page
Stopped(m, n, d, msgs, where) ==
    [merged |-> m, applied |-> n, df |-> d, status_col |-> "",
     metrics |-> NoMetrics, dept_count |-> NoChart, type_count |-> NoChart,
     excel_download |-> None, pdf_download |-> NoPdf, messages |-> msgs,
     halted |-> where, fetch |-> "none", font_path |-> "uncalled",
     fontCache |-> fontCache, fontFile |-> fontFile]

\* the run from the status summary to the end, the three selectboxes chosen
Shown(m, n, d, sc, dc, tc, click, net) ==
    LET g == IF click THEN get_font_path(fontCache, fontFile, net)
             ELSE [ret |-> "uncalled", fetch |-> "none", cache |-> fontCache,
                   file |-> fontFile, warned |-> FALSE]
        pdf == IF click THEN build_repair_pdf(d, sc, g.ret) ELSE NoPdf
    IN  [merged |-> m, applied |-> n, df |-> d, status_col |-> sc,
         metrics |-> StatusSummary(d, sc),
         dept_count |-> Chart(d, dc), type_count |-> Chart(d, tc),
         excel_download |-> d,
         pdf_download |-> pdf,
         messages |-> (IF g.warned THEN {"warning_font"} ELSE {})
                      \cup (IF click /\ ~pdf.ok THEN {"error_pdf"} ELSE {}),
         halted |-> "done", fetch |-> g.fetch, font_path |-> g.ret,
         fontCache |-> g.cache, fontFile |-> g.file]

\* every outcome of one script run on the given widget values; the three
\* selectboxes may stand on any of their options
Outcomes(files, rule, click, net) ==
    IF files = <<>>
    THEN {Stopped(None, 0, None, {"info_upload"}, "no_upload")}
    ELSE LET m == concat_uploads(files)
         IN  IF NothingToShow(m)
             THEN {Stopped(m, 0, m, ReadErrors(files) \cup {"warning_empty"}, "stop_empty")}
             ELSE LET n == IF rule # "" THEN 1 ELSE 0
                      d == IF rule # "" THEN apply_serial_rule(m, rule) ELSE m
                      sopts == StatusOptions(d)
                  IN  IF sopts = <<>>
                      THEN {Stopped(m, n, d, {"warning_nostatus"}, "stop_nostatus")}
                      ELSE {Shown(m, n, d, sc, dc, tc, click, net) :
                               sc \in Range(sopts),
                               dc \in Range(DeptOptions(d)),
                               tc \in Range(TypeOptions(d))}

\* the network only matters to a run that asks for the PDF
ScriptRun(files, rule, click) ==
    \E net \in (IF click THEN {"up", "down"} ELSE {network}) :
        \E o \in Outcomes(files, rule, click, net) :
            /\ uploaded_files' = files
            /\ serial_rule' = rule
            /\ clicked' = click
            /\ network' = net
            /\ fontFile' = o.fontFile
            /\ fontCache' = o.fontCache
            /\ fetch' = o.fetch
            /\ font_path' = o.font_path
            /\ merged' = o.merged
            /\ applied' = o.applied
            /\ df' = o.df
            /\ status_col' = o.status_col
            /\ metrics' = o.metrics
            /\ dept_count' = o.dept_count
            /\ type_count' = o.type_count
            /\ excel_download' = o.excel_download
            /\ pdf_download' = o.pdf_download
            /\ messages' = o.messages
            /\ halted' = o.halted

-----------------------------------------------------------------------------
\* The session

\* a fresh deployment: no font on disk yet, the first run of the script
Init ==
    /\ uploaded_files = <<>>
    /\ serial_rule = ""
    /\ clicked = FALSE
    /\ network = "unobserved"
    /\ fontFile = FALSE
    /\ fontCache = "unset"
    /\ fetch = "none"
    /\ font_path = "uncalled"
    /\ merged = None
    /\ applied = 0
    /\ df = None
    /\ status_col = ""
    /\ metrics = NoMetrics
    /\ dept_count = NoChart
    /\ type_count = NoChart
    /\ excel_download = None
    /\ pdf_download = NoPdf
    /\ messages = {"info_upload"}
    /\ halted = "no_upload"

\* the user adds a file to the uploader
AddFile ==
    /\ Len(uploaded_files) < MaxFiles
    /\ \E f \in Files : ScriptRun(Append(uploaded_files, f), serial_rule, FALSE)

\* the user removes a file from the uploader
RemoveFile ==
    \E i \in 1..Len(uploaded_files) :
        ScriptRun(SubSeq(uploaded_files, 1, i - 1)
                    \o SubSeq(uploaded_files, i + 1, Len(uploaded_files)),
                  serial_rule, FALSE)

\* the user edits the rule text
EditRule ==
    \E r \in Rules \ {serial_rule} : ScriptRun(uploaded_files, r, FALSE)

\* the user changes a selectbox
Select ==
    /\ halted = "done"
    /\ ScriptRun(uploaded_files, serial_rule, FALSE)

\* the user presses the PDF button
ClickPdf ==
    /\ halted = "done"
    /\ ScriptRun(uploaded_files, serial_rule, TRUE)

\* a new browser session of the same process: widgets reset, cache kept
NewSession ==
    \E files \in {<<>>} : ScriptRun(files, "", FALSE)

\* the process restarts: st.cache_resource is empty again, the disk is kept
Restart ==
    /\ fontCache # "unset"
    /\ network' = "unobserved"
    /\ fontCache' = "unset"
    /\ uploaded_files' = <<>>
    /\ serial_rule' = ""
    /\ clicked' = FALSE
    /\ fetch' = "none"
    /\ font_path' = "uncalled"
    /\ merged' = None
    /\ applied' = 0
    /\ df' = None
    /\ status_col' = ""
    /\ metrics' = NoMetrics
    /\ dept_count' = NoChart
    /\ type_count' = NoChart
    /\ excel_download' = None
    /\ pdf_download' = NoPdf
    /\ messages' = {"info_upload"}
    /\ halted' = "no_upload"
    /\ UNCHANGED fontFile

Next ==
    \/ AddFile
    \/ RemoveFile
    \/ EditRule
    \/ Select
    \/ ClickPdf
    \/ NewSession
    \/ Restart

Spec == Init /\ [][Next]_vars

-----------------------------------------------------------------------------
\* Repeated application of the serial rule to one table

UploadLists == UNION {[1..n -> Files] : n \in 1..MaxFiles}

InitRule ==
    /\ uploaded_files \in UploadLists
    /\ ~NothingToShow(concat_uploads(uploaded_files))
    /\ serial_rule \in Rules
    /\ merged = concat_uploads(uploaded_files)
    /\ df = merged
    /\ applied = 0
    /\ clicked = FALSE
    /\ network = "unobserved"
    /\ fontFile = FALSE
    /\ fontCache = "unset"
    /\ fetch = "none"
    /\ font_path = "uncalled"
    /\ status_col = ""
    /\ metrics = NoMetrics
    /\ dept_count = NoChart
    /\ type_count = NoChart
    /\ excel_download = None
    /\ pdf_download = NoPdf
    /\ messages = {}
    /\ halted = "rule"

\* df = apply_serial_rule(df, serial_rule) once more
ApplyRule ==
    /\ applied < MaxApply
    /\ df' = apply_serial_rule(df, serial_rule)
    /\ applied' = applied + 1
    /\ UNCHANGED <<uploaded_files, serial_rule, clicked, network, fontFile,
                   fontCache, fetch, font_path, merged, status_col, metrics,
                   dept_count, type_count, excel_download, pdf_download,
                   messages, halted>>

NextRule == ApplyRule

SpecRule == InitRule /\ [][NextRule]_vars

-----------------------------------------------------------------------------
\* Properties

AllDecode(files) == \A i \in 1..Len(files) : load_excel_or_csv(files[i]).ok

RECURSIVE RowsBefore(_, _)
\* number of rows decoded from the files before position i
RowsBefore(files, i) ==
    IF i <= 1 THEN 0
    ELSE RowsBefore(files, i - 1) + Len(load_excel_or_csv(files[i - 1]).rows)

\* nothing after the guard of line 125 was produced in the last run
NothingShown ==
    /\ ~metrics.shown
    /\ ~dept_count.shown
    /\ ~type_count.shown
    /\ ~excel_download.ok
    /\ ~pdf_download.ok

\* C1: for a non-empty upload list whose files all decode, the merged table
\* has as many rows as the files together, in file order and, within a file,
\* in the file's row order (each merged row carries the file row's cells).
C1_ConcatRows ==
    (uploaded_files # <<>> /\ AllDecode(uploaded_files)) =>
        /\ merged.ok
        /\ Len(merged.rows) = RowsBefore(uploaded_files, Len(uploaded_files) + 1)
        /\ \A i \in 1..Len(uploaded_files) :
              LET t == load_excel_or_csv(uploaded_files[i])
              IN  \A r \in 1..Len(t.rows) : \A k \in 1..Len(t.cols) :
                     Cell(merged, RowsBefore(uploaded_files, i) + r, t.cols[k])
                        = t.rows[r][k]

C1_Witness ==
    /\ uploaded_files = <<FileA, FileB>>
    /\ Len(merged.rows) = 3
    /\ halted = "done"

\* C2: if any file of the batch fails to decode, concat_uploads returns no
\* table, wherever the failing file stands, and nothing of the other files
\* reaches the summary, the charts or the exports of that run.
C2_AbortOnBadFile ==
    (\E i \in 1..Len(uploaded_files) : ~load_excel_or_csv(uploaded_files[i]).ok) =>
        /\ merged = None
        /\ df = None
        /\ halted = "stop_empty"
        /\ NothingShown

C2_Witness ==
    /\ uploaded_files = <<FileA, FileX>>
    /\ "error_read:x.bin" \in messages
    /\ halted = "stop_empty"

\* C3: a PDF request whose font fetch fails (no font file, no network) gets
\* no document: build_repair_pdf returns None, the error is shown and no PDF
\* download is offered; a PDF download is offered only in a run where the
\* button was pressed and get_font_path returned the font.
C3_NoFontNoPdf ==
    /\ (clicked /\ halted = "done" /\ (fetch = "fail" \/ font_path = "None")) =>
          /\ font_path = "None"
          /\ pdf_download = NoPdf
          /\ "error_pdf" \in messages
    /\ pdf_download.ok => (clicked /\ halted = "done" /\ font_path = FONT_PATH /\ fontFile)

C3_Witness ==
    /\ clicked
    /\ fetch = "fail"
    /\ ~fontFile
    /\ "error_pdf" \in messages
    /\ pdf_download = NoPdf

IsStatusLiteral(v) == v.t = "str" /\ v.s \in {NEED_REPAIR, TO_DISPOSE}

\* C4: the displayed counters satisfy need_repair + to_dispose <= total, with
\* equality exactly when every row's status is one of the two literals.
C4_StatusCounts ==
    metrics.shown =>
        /\ metrics.total_devices = Len(df.rows)
        /\ metrics.need_repair + metrics.to_dispose <= metrics.total_devices
        /\ (metrics.need_repair + metrics.to_dispose = metrics.total_devices)
              <=> (\A r \in 1..Len(df.rows) : IsStatusLiteral(Cell(df, r, status_col)))

C4_Witness ==
    /\ uploaded_files = <<FileA, FileB>>
    /\ metrics.shown
    /\ metrics.total_devices = 3
    /\ metrics.need_repair = 1
    /\ metrics.to_dispose = 1
    /\ Cell(df, 3, status_col) = NaN

RECURSIVE SumCounts(_)
SumCounts(groups) ==
    IF groups = {} THEN 0
    ELSE LET g == CHOOSE x \in groups : TRUE
         IN  g.count + SumCounts(groups \ {g})

WellGrouped(chart) ==
    chart.shown =>
        /\ \A g, h \in chart.groups : g.key = h.key => g = h
        /\ {g.key : g \in chart.groups}
              = {Cell(df, r, chart.by) : r \in 1..Len(df.rows)}
        /\ SumCounts(chart.groups) = Len(df.rows)

\* C5: each aggregation has exactly one key per distinct value of its column,
\* the missing value included, and its counts add up to the row count.
C5_GroupCounts == WellGrouped(dept_count) /\ WellGrouped(type_count)

C5_Witness ==
    /\ dept_count.shown
    /\ dept_count.by = "Dept"
    /\ [key |-> Str("IT"), count |-> 2] \in dept_count.groups
    /\ [key |-> NaN, count |-> 1] \in dept_count.groups
    /\ \E g \in type_count.groups : g.key = NaN

HasSerialCol(t) == \E k \in 1..Len(t.cols) : SerialTestOf[t.cols[k]]
\* the first column, in column order, whose label passes the serial test
FirstSerialCol(t) ==
    t.cols[CHOOSE k \in 1..Len(t.cols) :
              /\ SerialTestOf[t.cols[k]]
              /\ \A j \in 1..(k - 1) : ~SerialTestOf[t.cols[j]]]

RECURSIVE Rep(_, _)
\* x repeated n times
Rep(x, n) == IF n = 0 THEN "" ELSE x \o Rep(x, n - 1)

IsPrefixRule(rule) == startswith(rule, "prefix=")
IsSuffixRule(rule) == ~IsPrefixRule(rule) /\ startswith(rule, "suffix=")

\* C6: n >= 1 applications of prefix=X turn every value v of the selected
\* serial column into X...X + text(v) (X n times): X + text(v) after one,
\* X + X + text(v) after two, so a second application is visible whenever X is
\* not empty; suffix=X symmetrically gives text(v) + X...X.
C6_NotIdempotent ==
    (applied >= 1 /\ HasSerialCol(merged)) =>
        LET col == FirstSerialCol(merged)
        IN  /\ IsPrefixRule(serial_rule) =>
                 LET X == AfterPrefix(serial_rule, "prefix=")
                 IN  \A r \in 1..Len(merged.rows) :
                        /\ Cell(df, r, col) = Str(Rep(X, applied) \o Text(Cell(merged, r, col)))
                        /\ (applied = 2 /\ X # "") =>
                              Cell(df, r, col) # Str(X \o Text(Cell(merged, r, col)))
            /\ IsSuffixRule(serial_rule) =>
                 LET X == AfterPrefix(serial_rule, "suffix=")
                 IN  \A r \in 1..Len(merged.rows) :
                        /\ Cell(df, r, col) = Str(Text(Cell(merged, r, col)) \o Rep(X, applied))
                        /\ (applied = 2 /\ X # "") =>
                              Cell(df, r, col) # Str(Text(Cell(merged, r, col)) \o X)

C6_Witness ==
    /\ applied = 2
    /\ serial_rule = "prefix=HQ-"
    /\ uploaded_files = <<FileA>>
    /\ Cell(merged, 1, "Serial") = Str("001")
    /\ Cell(df, 1, "Serial") = Str("HQ-HQ-001")
    /\ Cell(df, 2, "Serial") = Str("HQ-HQ-7")

\* the cell the rule makes of v: X + text(v), or text(v) + X
RuleText(rule, v) ==
    IF IsPrefixRule(rule) THEN Str(AfterPrefix(rule, "prefix=") \o Text(v))
    ELSE Str(Text(v) \o AfterPrefix(rule, "suffix="))

C8_AsClaimed ==
    (uploaded_files = <<>> \/ (AllDecode(uploaded_files) /\ IsEmpty(merged))) =>
        /\ "warning_empty" \in messages
        /\ NothingShown
        /\ applied = 0

\* C8 amended: files that all decode to zero rows give the warning and a halt
\* before the rule, the summary, the charts and the exports; an empty upload
\* list gives no warning, only the upload prompt, and nothing else either.
C8_EmptyResult ==
    /\ uploaded_files = <<>> =>
          /\ messages = {"info_upload"}
          /\ halted = "no_upload"
          /\ NothingShown
          /\ applied = 0
    /\ (uploaded_files # <<>> /\ AllDecode(uploaded_files) /\ IsEmpty(merged)) =>
          /\ messages = {"warning_empty"}
          /\ halted = "stop_empty"
          /\ NothingShown
          /\ applied = 0

C8_Witness ==
    /\ uploaded_files = <<FileE, FileE>>
    /\ serial_rule = "prefix=HQ-"
    /\ merged.ok
    /\ messages = {"warning_empty"}

\* C9: once the font file is on disk, no step fetches it again, and every
\* get_font_path call returns its path, in this process or after a restart.
C9_FetchOnce ==
    [][fontFile => (fetch' = "none" /\ font_path' \in {"uncalled", FONT_PATH})]_vars

C9_Witness ==
    /\ fontFile
    /\ clicked
    /\ network = "down"
    /\ fetch = "none"
    /\ font_path = FONT_PATH
    /\ pdf_download.ok

\* C10: a failed font fetch ends only the run it happened in: a later PDF
\* request of the same process fetches again and succeeds when the network is
\* up, and the failure never hides the summary, the charts or the spreadsheet.
C10_RetryNextRequest ==
    (clicked /\ halted = "done") =>
        /\ ~fontFile => fetch = "fail"
        /\ network = "up" => pdf_download.ok
        /\ metrics.shown /\ dept_count.shown /\ type_count.shown /\ excel_download.ok

====
